---- MODULE Spec2Model ----
(***************************************************************************)
(* A model of goingnats.Client (src/goingnats.py): the frame splitter      *)
(* Messages, the connection loop Client._thread with its classifier and    *)
(* router, the two sinks _messages and _response, and the facade calls     *)
(* get, subscribe and request.                                             *)
(*                                                                         *)
(* Bytes are sequences of one-character strings, so b"PING" is             *)
(* <<"P","I","N","G">>.  The peer (a NATS server) is the environment: it   *)
(* writes INFO, PING and MSG frames encoded as in the NATS wire format.    *)
(***************************************************************************)
EXTENDS Integers, Sequences, FiniteSets, TLC

VARIABLES
    run,          \* Client._run
    lpc,          \* position of Client._thread
    received,     \* _thread's local `received` (last chunk read)
    buffer,       \* Messages._buffer
    frames,       \* frames the running Messages.__iter__ generator still has to yield
    subject,      \* _thread's local `subject`
    inbox,        \* _thread's local `inbox`
    information,  \* Client.information
    messagesQ,    \* Client._messages (queue.Queue())
    responseQ,    \* Client._response (queue.Queue(maxsize=1))
    sid,          \* Client._sid
    sent,         \* what the client wrote to the socket, one entry per sendall
    wire,         \* bytes the peer wrote that recv has not returned yet
    peerWrites,   \* number of writes the peer made
    peerLog,      \* the frames the peer wrote, in order (history)
    uuids,        \* number of uuid4() tokens drawn so far
    callers,      \* per caller thread: its position and locals
    fed,          \* all bytes fed to Messages so far (history)
    emitted,      \* all frames yielded by Messages so far (history)
    putLog,       \* every put into a sink, in order (history)
    got,          \* every delivery a get call returned, in order (history)
    sock,         \* Client._sock: "open", "shutdown" or "closed"
    peer,         \* the other end: "up", "closed" (end of stream), "reset" or "lost"
    raised        \* the exception that ended Client._thread, if any

vars == <<run, lpc, received, buffer, frames, subject, inbox, information,
          messagesQ, responseQ, sid, sent, wire, peerWrites, peerLog, uuids,
          callers, fed, emitted, putLog, got, sock, peer, raised>>

------------------------------------------------------------------------------
(* Bytes *)

SPACE == <<" ">>
CRLF == <<"\r", "\n">>
PING == <<"P", "I", "N", "G">>
PONG == <<"P", "O", "N", "G">>
OK == <<"+", "O", "K">>
ERR == <<"-", "E", "R", "R">>
INFO == <<"I", "N", "F", "O">>
MSG == <<"M", "S", "G">>
SUB == <<"S", "U", "B">>
UNSUB == <<"U", "N", "S", "U", "B">>
PUB == <<"P", "U", "B">>
CONNECT == <<"C", "O", "N", "N", "E", "C", "T">>
INBOXPREFIX == <<"I", "N", "B", "O", "X", ".">>

\* bytes.startswith
StartsWith(s, p) == Len(p) <= Len(s) /\ SubSeq(s, 1, Len(p)) = p

\* index of the first occurrence of sep in s, 0 when there is none (bytes.find + 1)
RECURSIVE FindFrom(_, _, _)
FindFrom(s, sep, i) ==
    IF i + Len(sep) - 1 > Len(s) THEN 0
    ELSE IF SubSeq(s, i, i + Len(sep) - 1) = sep THEN i
    ELSE FindFrom(s, sep, i + 1)

Find(s, sep) == FindFrom(s, sep, 1)

\* bytes.split(sep): the pieces between non-overlapping occurrences, left to right
RECURSIVE Split(_, _)
Split(s, sep) ==
    LET i == Find(s, sep)
    IN IF i = 0 THEN <<s>>
       ELSE <<SubSeq(s, 1, i - 1)>> \o Split(SubSeq(s, i + Len(sep), Len(s)), sep)

\* b"".join(parts)
RECURSIVE Join(_)
Join(parts) == IF parts = <<>> THEN <<>> ELSE Head(parts) \o Join(Tail(parts))

Digit(d) == CASE d = 0 -> "0" [] d = 1 -> "1" [] d = 2 -> "2" [] d = 3 -> "3"
              [] d = 4 -> "4" [] d = 5 -> "5" [] d = 6 -> "6" [] d = 7 -> "7"
              [] d = 8 -> "8" [] d = 9 -> "9"

\* _int_to_bytes: f"{i}".encode(), the decimal digits of a natural number
RECURSIVE IntToBytes(_)
IntToBytes(i) == IF i < 10 THEN <<Digit(i)>> ELSE IntToBytes(i \div 10) \o <<Digit(i % 10)>>

------------------------------------------------------------------------------
(* Messages: the frame splitter *)

\* the chunk alone, the carry dropped
MutMessagesCall(buf, chunk) == chunk

\* Messages.__call__: append the chunk to the buffer
MessagesCall(buf, chunk) == Join(<<buf, chunk>>)

\* the comparison as it would be if the last two bytes were taken
MutLastIsNotSeparator(buf) == Len(buf) < 2 \/ SubSeq(buf, Len(buf) - 1, Len(buf)) # CRLF

\* `last != self.separator` with last = self._buffer[-1]: one byte (an int)
\* compared with the two-byte separator, which never are equal
LastIsNotSeparator(buf) == <<buf[Len(buf)]>> # CRLF

\* Messages.__iter__: the frames it yields and the buffer it leaves
MessagesIter(buf) ==
    LET messages == Split(buf, CRLF)
    IN IF buf = <<>> THEN [frames |-> <<>>, buffer |-> buf]
       ELSE IF LastIsNotSeparator(buf)
            THEN [frames |-> SubSeq(messages, 1, Len(messages) - 1),
                  buffer |-> messages[Len(messages)]]
            ELSE [frames |-> messages, buffer |-> buf]

------------------------------------------------------------------------------
(* Values of the Python locals and the deliveries *)

Unbound == [kind |-> "unbound", val |-> <<>>]
PyFalse == [kind |-> "False", val |-> <<>>]
PyBytes(b) == [kind |-> "bytes", val |-> b]

\* `if inbox:` : False and b"" are falsy
Truthy(v) == v.kind = "bytes" /\ v.val # <<>>

\* the namedtuples Message, Request and Response
Message(subj, payload) ==
    [type |-> "Message", subject |-> subj, inbox |-> <<>>, payload |-> payload]
Request(subj, inb, payload) ==
    [type |-> "Request", subject |-> subj, inbox |-> inb, payload |-> payload]
Response(payload) ==
    [type |-> "Response", subject |-> <<>>, inbox |-> <<>>, payload |-> payload]

\* the wait argument of get and request: None, or a number of milliseconds
None == [given |-> FALSE, ms |-> 0]
Ms(n) == [given |-> TRUE, ms |-> n]

------------------------------------------------------------------------------
(* Bounds and menus of the inputs *)

MaxPeerWrites == 2     \* socket writes the peer makes
MaxCalls == 2          \* facade calls one caller thread makes
MaxStream == 6         \* length of a byte stream fed to a bare Messages
RecvSize == 4096       \* the argument of recv

Payloads == {<<"x">>}
ReplySubjects == {<<"r">>}
Subjects == {<<"a">>, INBOXPREFIX \o <<"z">>}
GetWaits == {None, Ms(-1), Ms(0), Ms(10)}
RequestWaits == {None, Ms(0), Ms(10)}
SplitAlphabet == {"\r", "\n", "a"}
AnyPayloads == {<<>>, <<"x">>, PING}

BoundedSeqs(S, n) == UNION {[1..k -> S] : k \in 0..n}

Min(a, b) == IF a <= b THEN a ELSE b

------------------------------------------------------------------------------
(* The socket *)

\* Client._send on a healthy socket: payload.append(CRLF); sendall(b"".join(payload))
Send(out, payload) == Append(out, Join(Append(payload, CRLF)))

------------------------------------------------------------------------------
(* The peer: a NATS server writing to the connection *)

Connected == lpc # "unstarted"

Body(frame) == SubSeq(frame, 1, Len(frame) - Len(CRLF))

\* the SUB frames the client wrote, by their index in `sent`
SubFrames == {i \in 1..Len(sent) : StartsWith(sent[i], SUB \o SPACE)}
SubSubject(i) == Split(Body(sent[i]), SPACE)[2]
SubSid(i) == Split(Body(sent[i]), SPACE)[3]

\* UNSUB <sid> 1 was written for the sid of subscription i
OneShot(i) ==
    \E j \in 1..Len(sent) : sent[j] = Join(<<UNSUB, SPACE, SubSid(i), SPACE, <<"1">>, CRLF>>)

\* MSG <subject> <sid> [<replySubject>] <byteCount>
MsgFrame(subj, sidBytes, reply, payload) ==
    Join(<<MSG, SPACE, subj, SPACE, sidBytes, SPACE>>)
        \o (IF reply.given THEN reply.val \o SPACE ELSE <<>>)
        \o IntToBytes(Len(payload))

DeliveredTo(i) ==
    \E k \in 1..Len(peerLog) :
        /\ peerLog[k].kind = "MSG"
        /\ StartsWith(peerLog[k].frame, Join(<<MSG, SPACE, SubSubject(i), SPACE, SubSid(i), SPACE>>))

NoReply == [given |-> FALSE, val |-> <<>>]
Reply(r) == [given |-> TRUE, val |-> r]

Entry(kind, frame, subj, reply) ==
    [kind |-> kind, frame |-> frame, subject |-> subj, reply |-> reply]

\* one socket write of the peer; it is seen by the client only through recv, so
\* it is taken when the loop is about to read
PeerWrite(entries) ==
    /\ lpc = "recv"
    /\ sock # "closed"
    /\ peer = "up"
    /\ peerWrites < MaxPeerWrites
    /\ peerWrites' = peerWrites + 1
    /\ peerLog' = peerLog \o entries
    /\ wire' = wire \o Join([k \in 1..Len(entries) |-> entries[k].frame \o CRLF])
    /\ UNCHANGED <<run, lpc, received, buffer, frames, subject, inbox, information,
                   messagesQ, responseQ, sid, sent, uuids, callers, fed, emitted,
                   putLog, got, sock, peer, raised>>

\* the server greets with INFO <json>
PeerInfo ==
    /\ peerWrites = 0
    /\ PeerWrite(<<Entry("INFO", Join(<<INFO, SPACE, <<"{", "}">>>>), <<>>, NoReply)>>)

PeerPing ==
    /\ PeerWrite(<<Entry("PING", PING, <<>>, NoReply)>>)

\* a delivery: the announcement and the payload in one write
PeerMsg(subj, sidBytes, reply, payload) ==
    /\ PeerWrite(<<Entry("MSG", MsgFrame(subj, sidBytes, reply, payload), subj, reply),
                   Entry("PAYLOAD", payload, subj, reply)>>)

\* a PUB naming the subject of subscription i as its reply subject was written
Requested(i) ==
    \E j \in 1..Len(sent) :
        /\ StartsWith(sent[j], PUB \o SPACE)
        /\ LET split == Split(SubSeq(sent[j], 1, Find(sent[j], CRLF) - 1), SPACE)
           IN Len(split) = 4 /\ split[3] = SubSubject(i)

\* a delivery to subscription i of the client; one to an inbox is a reply to
\* the request that named it
PeerMsgTo(i, reply, payload) ==
    /\ peerWrites < MaxPeerWrites
    /\ i \in SubFrames
    /\ ~(OneShot(i) /\ DeliveredTo(i))
    /\ StartsWith(SubSubject(i), INBOXPREFIX) => Requested(i)
    /\ PeerMsg(SubSubject(i), SubSid(i), reply, payload)

\* the peer closes the connection (end of stream), resets it, or gets out of reach
PeerFails(how) ==
    /\ lpc = "recv"
    /\ sock = "open"
    /\ peer = "up"
    /\ peer' = how
    /\ UNCHANGED <<run, lpc, received, buffer, frames, subject, inbox, information,
                   messagesQ, responseQ, sid, sent, wire, peerWrites, peerLog, uuids,
                   callers, fed, emitted, putLog, got, sock, raised>>

\* a frame that is none of those the client knows, as the second line of a
\* payload holding CRLF is
PeerOther ==
    /\ PeerWrite(<<Entry("OTHER", <<"y">>, <<>>, NoReply)>>)

\* frames the client ignores: PONG and +OK
PeerQuiet ==
    \E f \in {PONG, OK} : PeerWrite(<<Entry("QUIET", f, <<>>, NoReply)>>)

\* a PING and a delivery in one write
PeerPingMsg(subj, sidBytes, reply, payload) ==
    /\ PeerWrite(<<Entry("PING", PING, <<>>, NoReply),
                   Entry("MSG", MsgFrame(subj, sidBytes, reply, payload), subj, reply),
                   Entry("PAYLOAD", payload, subj, reply)>>)

------------------------------------------------------------------------------
(* Client._thread: the connection loop *)

\* a put at the head, as a LIFO queue does
MutPut(q, x) == <<x>> \o q

\* queue.Queue.put at the tail
Put(q, x) == Append(q, x)

\* a count one short of the queue's size
MutQsize(q) == IF Len(q) > 1 THEN Len(q) - 1 ELSE Len(q)

\* queue.Queue.qsize
Qsize(q) == Len(q)

\* queue.Queue.get_nowait and get: the item at the head is taken
Popped(q) == [item |-> Head(q), rest |-> Tail(q)]

\* the payload branch with the inbox-prefix test first
MutRoute(subj, inb, message) ==
    IF StartsWith(subj.val, INBOXPREFIX)
    THEN [sink |-> "response", item |-> Response(message)]
    ELSE IF Truthy(inb)
         THEN [sink |-> "messages", item |-> Request(subj.val, inb.val, message)]
         ELSE [sink |-> "messages", item |-> Message(subj.val, message)]

\* the payload branch: request, else response, else vanilla message
Route(subj, inb, message) ==
    IF Truthy(inb)
    THEN [sink |-> "messages", item |-> Request(subj.val, inb.val, message)]
    ELSE IF StartsWith(subj.val, INBOXPREFIX)
         THEN [sink |-> "response", item |-> Response(message)]
         ELSE [sink |-> "messages", item |-> Message(subj.val, message)]

\* the MSG branch taking split[3] from four tokens on
MutAnnounced(message) ==
    LET split == Split(message, SPACE)
    IN [ok |-> Len(split) >= 2,
        subject |-> IF Len(split) >= 2 THEN PyBytes(split[2]) ELSE Unbound,
        inbox |-> IF Len(split) >= 4 THEN PyBytes(split[4]) ELSE PyFalse]

\* the MSG branch: message.split(b" "), subject = split[1], inbox = False or split[3]
Announced(message) ==
    LET split == Split(message, SPACE)
    IN [ok |-> Len(split) >= 2,
        subject |-> IF Len(split) >= 2 THEN PyBytes(split[2]) ELSE Unbound,
        inbox |-> IF Len(split) >= 5 THEN PyBytes(split[4]) ELSE PyFalse]

\* __enter__: connect, set _run and start the thread
Enter ==
    /\ lpc = "unstarted"
    /\ run' = TRUE
    /\ lpc' = "while"
    /\ UNCHANGED <<received, buffer, frames, subject, inbox, information, messagesQ,
                   responseQ, sid, sent, wire, peerWrites, peerLog, uuids, callers,
                   fed, emitted, putLog, got, sock, peer, raised>>

\* `while self._run:`
LoopTest ==
    /\ lpc = "while"
    /\ lpc' = IF run THEN "recv" ELSE "done"
    /\ UNCHANGED <<run, received, buffer, frames, subject, inbox, information,
                   messagesQ, responseQ, sid, sent, wire, peerWrites, peerLog, uuids,
                   callers, fed, emitted, putLog, got, sock, peer, raised>>

\* the chunk sizes tried for a recv: everything that is there, up to a frame
\* boundary, up to between the two bytes of a separator, and the first byte of a
\* frame alone
CutPoints ==
    {n \in 1..Min(Len(wire), RecvSize) :
        \/ n = Len(wire)
        \/ wire[n] = "\n"
        \/ wire[n] = "\r"
        \/ n = 1 /\ buffer = <<>>}

\* recv returns n bytes of what the peer wrote; messages(received) and the start
\* of its iteration
LoopRecv(n) ==
    /\ lpc = "recv"
    /\ sock # "closed"
    /\ peer \in {"up", "closed"}
    /\ n \in CutPoints
    /\ LET chunk == SubSeq(wire, 1, n)
           it == MessagesIter(MessagesCall(buffer, chunk))
       IN /\ received' = PyBytes(chunk)
          /\ wire' = SubSeq(wire, n + 1, Len(wire))
          /\ fed' = fed \o chunk
          /\ buffer' = it.buffer
          /\ frames' = it.frames
          /\ lpc' = IF it.frames = <<>> THEN "while" ELSE "for"
    /\ UNCHANGED <<run, subject, inbox, information, messagesQ, responseQ, sid, sent,
                   peerWrites, peerLog, uuids, callers, emitted, putLog, got, sock, peer, raised>>

\* recv returns b"": the stream ended, because the peer closed it and all it
\* wrote was read, or because this side shut the socket down
LoopRecvEnd ==
    /\ lpc = "recv"
    /\ \/ sock = "shutdown"
       \/ sock = "open" /\ peer = "closed" /\ wire = <<>>
    /\ LET it == MessagesIter(MessagesCall(buffer, <<>>))
       IN /\ received' = PyBytes(<<>>)
          /\ buffer' = it.buffer
          /\ frames' = it.frames
          /\ lpc' = IF it.frames = <<>> THEN "while" ELSE "for"
    /\ UNCHANGED <<run, subject, inbox, information, messagesQ, responseQ, sid, sent,
                   wire, peerWrites, peerLog, uuids, callers, fed, emitted, putLog, got,
                   sock, peer, raised>>

\* no exception has ended the thread
NotRaised == [kind |-> "none", stopped |-> FALSE]

\* an exception leaves Client._thread; `stopped` tells that _run was false then
Raised(kind) == [kind |-> kind, stopped |-> ~run]

\* the exceptions recv can raise on the socket as it is: OSError on a closed
\* socket (bad file descriptor) or when the peer is out of reach,
\* ConnectionResetError when the peer reset the connection
RecvErrors ==
    IF sock = "closed" THEN {"OSError"}
    ELSE IF sock = "open" /\ peer = "lost" THEN {"OSError"}
    ELSE IF sock = "open" /\ peer = "reset" THEN {"ConnectionResetError"}
    ELSE {}

\* recv raises: ConnectionResetError is raised again whatever _run is, another
\* OSError only while _run is true; when it is swallowed the for statement runs
\* messages(received) with `received` as the last recv left it
LoopRecvFails(kind) ==
    /\ lpc = "recv"
    /\ kind \in RecvErrors
    /\ IF kind = "ConnectionResetError" \/ run
       THEN /\ lpc' = "dead"
            /\ raised' = Raised(kind)
            /\ UNCHANGED <<buffer, frames, fed>>
       ELSE IF received = Unbound
       THEN /\ lpc' = "dead"
            /\ raised' = Raised("UnboundLocalError")
            /\ UNCHANGED <<buffer, frames, fed>>
       ELSE LET it == MessagesIter(MessagesCall(buffer, received.val))
            IN /\ fed' = fed \o received.val
               /\ buffer' = it.buffer
               /\ frames' = it.frames
               /\ lpc' = IF it.frames = <<>> THEN "while" ELSE "for"
               /\ UNCHANGED raised
    /\ UNCHANGED <<run, received, subject, inbox, information, messagesQ, responseQ,
                   sid, sent, wire, peerWrites, peerLog, uuids, callers, emitted,
                   putLog, got, sock, peer>>

\* what sendall does on the socket as it is: on a closed socket it raises OSError
\* (bad file descriptor), after shutdown(SHUT_RDWR) BrokenPipeError, to a peer that
\* reset the connection or is out of reach BrokenPipeError or another OSError
SendOutcomes ==
    IF sock = "closed" THEN {"OSError"}
    ELSE IF sock = "shutdown" THEN {"BrokenPipeError"}
    ELSE IF peer \in {"reset", "lost"} THEN {"BrokenPipeError", "OSError"}
    ELSE {"ok"}

\* the frame written twice
MutLoopSend(payload, after) ==
    /\ sent' = Send(Send(sent, payload), payload)
    /\ lpc' = after
    /\ UNCHANGED raised

\* Client._send called by the loop: BrokenPipeError is raised again whatever _run
\* is, another OSError only while _run is true
LoopSend(payload, after) ==
    \E o \in SendOutcomes :
        IF o = "ok"
        THEN /\ sent' = Send(sent, payload)
             /\ lpc' = after
             /\ UNCHANGED raised
        ELSE IF o = "BrokenPipeError" \/ run
        THEN /\ lpc' = "dead"
             /\ raised' = Raised(o)
             /\ UNCHANGED sent
        ELSE /\ lpc' = after
             /\ UNCHANGED <<sent, raised>>

\* one turn of `for message in messages(received)`
LoopFrame ==
    /\ lpc = "for"
    /\ frames # <<>>
    /\ LET message == Head(frames)
           after == IF Tail(frames) = <<>> THEN "while" ELSE "for"
           at == Len(emitted) + 1
       IN
       IF message = PING THEN
            /\ LoopSend(<<PONG>>, after)
            /\ UNCHANGED <<subject, inbox, information, messagesQ, responseQ, putLog>>
       ELSE IF message = PONG \/ message = OK \/ StartsWith(message, ERR) THEN
            \* pass, or warnings.warn
            /\ lpc' = after
            /\ UNCHANGED <<subject, inbox, information, messagesQ, responseQ, sent,
                           putLog, raised>>
       ELSE IF StartsWith(message, INFO) THEN
            \* json.loads(message[4:]) kept as its text; CONNECT <json> with the
            \* json text kept as one symbol
            /\ information' = SubSeq(message, 5, Len(message))
            /\ LoopSend(<<CONNECT, SPACE, <<"{name,verbose,version}">>>>, after)
            /\ UNCHANGED <<subject, inbox, messagesQ, responseQ, putLog>>
       ELSE IF StartsWith(message, MSG) THEN
            LET a == Announced(message)
            IN /\ subject' = IF a.ok THEN a.subject ELSE subject
               /\ inbox' = IF a.ok THEN a.inbox ELSE inbox
               \* split[1] of a one-token frame raises IndexError
               /\ lpc' = IF a.ok THEN after ELSE "dead"
               /\ raised' = IF a.ok THEN raised ELSE Raised("IndexError")
               /\ UNCHANGED <<information, messagesQ, responseQ, sent, putLog>>
       ELSE IF inbox = Unbound THEN
            \* `if inbox:` before any MSG raises UnboundLocalError
            /\ lpc' = "dead"
            /\ raised' = Raised("UnboundLocalError")
            /\ UNCHANGED <<subject, inbox, information, messagesQ, responseQ, sent, putLog>>
       ELSE
            LET r == Route(subject, inbox, message)
                to == subject.val
            IN /\ IF r.sink = "messages"
                  THEN /\ messagesQ' = Put(messagesQ, r.item)
                       /\ UNCHANGED responseQ
                  ELSE \* put on a queue of maxsize 1 blocks while it is full
                       /\ Len(responseQ) < 1
                       /\ responseQ' = Put(responseQ, [item |-> r.item, to |-> to])
                       /\ UNCHANGED messagesQ
               /\ putLog' = Append(putLog, [sink |-> r.sink, item |-> r.item,
                                            at |-> at, to |-> to])
               /\ lpc' = after
               /\ UNCHANGED <<subject, inbox, information, sent, raised>>
    /\ frames' = Tail(frames)
    /\ emitted' = Append(emitted, Head(frames))
    /\ UNCHANGED <<run, received, buffer, sid, wire, peerWrites, peerLog, uuids,
                   callers, fed, got, sock, peer>>

------------------------------------------------------------------------------
(* The facade calls, made by caller threads *)

NoResult == [kind |-> "none", val |-> <<>>, to |-> <<>>]
Returns(val, to) == [kind |-> "return", val |-> val, to |-> to]
Raises(kind) == [kind |-> kind, val |-> <<>>, to |-> <<>>]

IdleCaller ==
    [pc |-> "idle", op |-> "none", calls |-> 0, result |-> NoResult,
     wait |-> None, timeout |-> None, subj |-> <<>>, inbox |-> <<>>,
     n |-> 0, acc |-> <<>>, snap |-> <<>>, snapPuts |-> 0, tmp |-> 0,
     timedOut |-> FALSE, loopEnded |-> FALSE]

\* the items put into _messages so far
MsgPuts ==
    LET puts == SelectSeq(putLog, LAMBDA e : e.sink = "messages")
    IN [k \in 1..Len(puts) |-> puts[k].item]

CanCall(c) ==
    /\ Connected
    /\ callers[c].pc = "idle"
    /\ callers[c].calls < MaxCalls

Started(c, op, w) ==
    [callers[c] EXCEPT !.op = op, !.calls = @ + 1, !.result = NoResult, !.wait = w,
                       !.timeout = None, !.subj = <<>>, !.inbox = <<>>, !.n = 0,
                       !.acc = <<>>, !.snap = <<>>, !.snapPuts = 0, !.tmp = 0,
                       !.loopEnded = (lpc = "dead")]

Done(rec, result) == [rec EXCEPT !.pc = "idle", !.result = result, !.n = 0, !.acc = <<>>, !.tmp = 0]

\* get: the first _get reads qsize(); with nothing queued the wait argument decides
GetCall(c, w) ==
    /\ CanCall(c)
    /\ LET rec == [Started(c, "get", w) EXCEPT !.n = Qsize(messagesQ), !.snap = messagesQ,
                                               !.snapPuts = Len(MsgPuts)]
       IN callers' = [callers EXCEPT ![c] =
            IF rec.n > 0 THEN [rec EXCEPT !.pc = "get_nowait"]
            ELSE IF ~w.given THEN Done(rec, Returns(<<>>, <<>>))
            ELSE IF w.ms < 0 THEN Done(rec, Raises("ValueError"))
            ELSE [rec EXCEPT !.pc = "get_wait"]]
    /\ UNCHANGED <<run, lpc, received, buffer, frames, subject, inbox, information,
                   messagesQ, responseQ, sid, sent, wire, peerWrites, peerLog, uuids,
                   fed, emitted, putLog, got, sock, peer, raised>>

\* one get_nowait() of the comprehension in _get; the last one ends the call
GetNowait(c) ==
    /\ callers[c].pc = "get_nowait"
    /\ IF messagesQ = <<>>
       THEN /\ callers' = [callers EXCEPT ![c] = Done(@, Raises("Empty"))]
            /\ UNCHANGED <<messagesQ, got>>
       ELSE LET acc == Append(callers[c].acc, Popped(messagesQ).item)
            IN /\ messagesQ' = Popped(messagesQ).rest
               /\ IF callers[c].n = 1
                  THEN /\ callers' = [callers EXCEPT ![c] = Done(@, Returns(acc, <<>>))]
                       /\ got' = got \o acc
                  ELSE /\ callers' = [callers EXCEPT ![c] = [@ EXCEPT !.n = @ - 1, !.acc = acc]]
                       /\ UNCHANGED got
    /\ UNCHANGED <<run, lpc, received, buffer, frames, subject, inbox, information,
                   responseQ, sid, sent, wire, peerWrites, peerLog, uuids, fed, emitted,
                   putLog, sock, peer, raised>>

\* not_empty.wait(wait / 1_000) is over (notified or timed out); the second _get
\* reads qsize()
GetWait(c) ==
    /\ callers[c].pc = "get_wait"
    /\ LET rec == [callers[c] EXCEPT !.n = Qsize(messagesQ), !.snap = messagesQ,
                                     !.snapPuts = Len(MsgPuts)]
       IN callers' = [callers EXCEPT ![c] =
            IF rec.n > 0 THEN [rec EXCEPT !.pc = "get_nowait"]
            ELSE Done(rec, Returns(<<>>, <<>>))]
    /\ UNCHANGED <<run, lpc, received, buffer, frames, subject, inbox, information,
                   messagesQ, responseQ, sid, sent, wire, peerWrites, peerLog, uuids,
                   fed, emitted, putLog, got, sock, peer, raised>>

\* subscribe: `self._sid += 1` loads _sid ...
SubCall(c, subj) ==
    /\ CanCall(c)
    /\ callers' = [callers EXCEPT ![c] =
            [Started(c, "subscribe", None) EXCEPT !.pc = "sub_store", !.subj = subj, !.tmp = sid]]
    /\ UNCHANGED <<run, lpc, received, buffer, frames, subject, inbox, information,
                   messagesQ, responseQ, sid, sent, wire, peerWrites, peerLog, uuids,
                   fed, emitted, putLog, got, sock, peer, raised>>

\* ... and stores the sum
SubStore(c) ==
    /\ callers[c].pc = "sub_store"
    /\ sid' = callers[c].tmp + 1
    /\ callers' = [callers EXCEPT ![c] = [@ EXCEPT !.pc = "sub_send"]]
    /\ UNCHANGED <<run, lpc, received, buffer, frames, subject, inbox, information,
                   messagesQ, responseQ, sent, wire, peerWrites, peerLog, uuids,
                   fed, emitted, putLog, got, sock, peer, raised>>

\* _send([b"SUB", SPACE, subject, SPACE, _int_to_bytes(self._sid)])
SubSend(c) ==
    /\ callers[c].pc = "sub_send"
    /\ sent' = Send(sent, <<SUB, SPACE, callers[c].subj, SPACE, IntToBytes(sid)>>)
    /\ callers' = [callers EXCEPT ![c] = Done(@, Returns(<<>>, <<>>))]
    /\ UNCHANGED <<run, lpc, received, buffer, frames, subject, inbox, information,
                   messagesQ, responseQ, sid, wire, peerWrites, peerLog, uuids,
                   fed, emitted, putLog, got, sock, peer, raised>>

\* f"INBOX.{uuid.uuid4().hex}": a token no earlier call drew
InboxSubject(k) == INBOXPREFIX \o IntToBytes(k)

\* `wait / 1_000 if wait else None`, kept in milliseconds
TimeoutOf(w) == IF w.given /\ w.ms # 0 THEN w ELSE None

\* request: draws the inbox, then `self._sid += 1` loads _sid ...
ReqCall(c, subj, w) ==
    /\ CanCall(c)
    /\ uuids' = uuids + 1
    /\ callers' = [callers EXCEPT ![c] =
            [Started(c, "request", w) EXCEPT !.pc = "req_store", !.subj = subj,
                                             !.inbox = InboxSubject(uuids + 1), !.tmp = sid]]
    /\ UNCHANGED <<run, lpc, received, buffer, frames, subject, inbox, information,
                   messagesQ, responseQ, sid, sent, wire, peerWrites, peerLog,
                   fed, emitted, putLog, got, sock, peer, raised>>

ReqStore(c) ==
    /\ callers[c].pc = "req_store"
    /\ sid' = callers[c].tmp + 1
    /\ callers' = [callers EXCEPT ![c] = [@ EXCEPT !.pc = "req_sub"]]
    /\ UNCHANGED <<run, lpc, received, buffer, frames, subject, inbox, information,
                   messagesQ, responseQ, sent, wire, peerWrites, peerLog, uuids,
                   fed, emitted, putLog, got, sock, peer, raised>>

\* _send([b"SUB", SPACE, inbox, SPACE, _int_to_bytes(self._sid)])
ReqSub(c) ==
    /\ callers[c].pc = "req_sub"
    /\ sent' = Send(sent, <<SUB, SPACE, callers[c].inbox, SPACE, IntToBytes(sid)>>)
    /\ callers' = [callers EXCEPT ![c] = [@ EXCEPT !.pc = "req_unsub"]]
    /\ UNCHANGED <<run, lpc, received, buffer, frames, subject, inbox, information,
                   messagesQ, responseQ, sid, wire, peerWrites, peerLog, uuids,
                   fed, emitted, putLog, got, sock, peer, raised>>

\* _send([b"UNSUB", SPACE, _int_to_bytes(self._sid), SPACE, b"1"])
ReqUnsub(c) ==
    /\ callers[c].pc = "req_unsub"
    /\ sent' = Send(sent, <<UNSUB, SPACE, IntToBytes(sid), SPACE, <<"1">>>>)
    /\ callers' = [callers EXCEPT ![c] = [@ EXCEPT !.pc = "req_pub"]]
    /\ UNCHANGED <<run, lpc, received, buffer, frames, subject, inbox, information,
                   messagesQ, responseQ, sid, wire, peerWrites, peerLog, uuids,
                   fed, emitted, putLog, got, sock, peer, raised>>

\* the PUB with the inbox as reply subject (payload b""), then the timeout of
\* _response.get is computed
ReqPub(c) ==
    /\ callers[c].pc = "req_pub"
    /\ sent' = Send(sent, <<PUB, SPACE, callers[c].subj, SPACE, callers[c].inbox, SPACE,
                            IntToBytes(0), CRLF, <<>>>>)
    /\ callers' = [callers EXCEPT ![c] =
            [@ EXCEPT !.pc = "req_wait", !.timeout = TimeoutOf(callers[c].wait)]]
    /\ UNCHANGED <<run, lpc, received, buffer, frames, subject, inbox, information,
                   messagesQ, responseQ, sid, wire, peerWrites, peerLog, uuids,
                   fed, emitted, putLog, got, sock, peer, raised>>

\* _response.get(timeout=...) finds an item
ReqResponse(c) ==
    /\ callers[c].pc = "req_wait"
    /\ responseQ # <<>>
    /\ responseQ' = Popped(responseQ).rest
    /\ callers' = [callers EXCEPT ![c] =
            Done(@, Returns(<<Popped(responseQ).item.item>>, Popped(responseQ).item.to))]
    /\ UNCHANGED <<run, lpc, received, buffer, frames, subject, inbox, information,
                   messagesQ, sid, sent, wire, peerWrites, peerLog, uuids,
                   fed, emitted, putLog, got, sock, peer, raised>>

\* _response.get(timeout=...) raises queue.Empty when the timeout is over:
\* TimeoutError
ReqTimeout(c) ==
    /\ callers[c].pc = "req_wait"
    /\ callers[c].timeout.given
    /\ responseQ = <<>>
    /\ callers' = [callers EXCEPT ![c] = [Done(@, Raises("TimeoutError")) EXCEPT !.timedOut = TRUE]]
    /\ UNCHANGED <<run, lpc, received, buffer, frames, subject, inbox, information,
                   messagesQ, responseQ, sid, sent, wire, peerWrites, peerLog, uuids,
                   fed, emitted, putLog, got, sock, peer, raised>>

\* __exit__: `self._run = False`
ExitCall(c) ==
    /\ Connected
    /\ callers[c].pc = "idle"
    /\ run' = FALSE
    /\ callers' = [callers EXCEPT ![c] = [@ EXCEPT !.pc = "exit_shutdown", !.op = "exit",
                                                   !.result = NoResult]]
    /\ UNCHANGED <<lpc, received, buffer, frames, subject, inbox, information,
                   messagesQ, responseQ, sid, sent, wire, peerWrites, peerLog, uuids,
                   fed, emitted, putLog, got, sock, peer, raised>>

\* self._sock.shutdown(socket.SHUT_RDWR); its OSError (the connection was reset)
\* is passed over
ExitShutdown(c) ==
    /\ callers[c].pc = "exit_shutdown"
    /\ sock' = IF peer = "reset" THEN sock ELSE "shutdown"
    /\ callers' = [callers EXCEPT ![c] = [@ EXCEPT !.pc = "exit_close"]]
    /\ UNCHANGED <<run, lpc, received, buffer, frames, subject, inbox, information,
                   messagesQ, responseQ, sid, sent, wire, peerWrites, peerLog, uuids,
                   fed, emitted, putLog, got, peer, raised>>

\* self._sock.close()
ExitClose(c) ==
    /\ callers[c].pc = "exit_close"
    /\ sock' = "closed"
    /\ callers' = [callers EXCEPT ![c] = [@ EXCEPT !.pc = "exited",
                                                   !.result = Returns(<<>>, <<>>)]]
    /\ UNCHANGED <<run, lpc, received, buffer, frames, subject, inbox, information,
                   messagesQ, responseQ, sid, sent, wire, peerWrites, peerLog, uuids,
                   fed, emitted, putLog, got, peer, raised>>

------------------------------------------------------------------------------
(* The specifications *)

InitWith(threads, stream) ==
    /\ run = FALSE
    /\ lpc = "unstarted"
    /\ received = Unbound
    /\ buffer = <<>>
    /\ frames = <<>>
    /\ subject = Unbound
    /\ inbox = Unbound
    /\ information = <<>>
    /\ messagesQ = <<>>
    /\ responseQ = <<>>
    /\ sid = 0
    /\ sent = <<>>
    /\ wire = stream
    /\ peerWrites = 0
    /\ peerLog = <<>>
    /\ uuids = 0
    /\ callers = [c \in threads |-> IdleCaller]
    /\ fed = <<>>
    /\ emitted = <<>>
    /\ putLog = <<>>
    /\ got = <<>>
    /\ sock = "open"
    /\ peer = "up"
    /\ raised = NotRaised

Replies == {NoReply} \cup {Reply(x) : x \in ReplySubjects}

\* deliveries on the subjects of the menu, under sid 1
PeerDelivers ==
    \E s \in Subjects, r \in Replies, p \in Payloads : PeerMsg(s, IntToBytes(1), r, p)

\* deliveries to the subscriptions the client made
PeerReplies ==
    \E i \in 1..Len(sent), r \in Replies, p \in Payloads : PeerMsgTo(i, r, p)

Threads == DOMAIN callers

\* one connection, one caller thread that gets
Init == InitWith({"app"}, <<>>)

Next ==
    \/ Enter
    \/ PeerDelivers
    \/ LoopTest
    \/ \E n \in 1..Len(wire) : LoopRecv(n)
    \/ LoopFrame
    \/ \E c \in Threads, w \in GetWaits : GetCall(c, w)
    \/ \E c \in Threads : GetNowait(c)
    \/ \E c \in Threads : GetWait(c)

Spec == Init /\ [][Next]_vars

\* one connection, one caller thread that requests
NextRequest ==
    \/ Enter
    \/ PeerReplies
    \/ LoopTest
    \/ \E n \in 1..Len(wire) : LoopRecv(n)
    \/ LoopFrame
    \/ \E c \in Threads, w \in RequestWaits : ReqCall(c, <<"q">>, w)
    \/ \E c \in Threads : ReqStore(c)
    \/ \E c \in Threads : ReqSub(c)
    \/ \E c \in Threads : ReqUnsub(c)
    \/ \E c \in Threads : ReqPub(c)
    \/ \E c \in Threads : ReqResponse(c)
    \/ \E c \in Threads : ReqTimeout(c)

SpecRequest == Init /\ [][NextRequest]_vars

\* two caller threads that subscribe and request on one connection; the peer is silent
InitCallers == InitWith({"t1", "t2"}, <<>>)

NextCallers ==
    \/ Enter
    \/ \E c \in Threads : SubCall(c, <<"a">>)
    \/ \E c \in Threads : SubStore(c)
    \/ \E c \in Threads : SubSend(c)
    \/ \E c \in Threads : ReqCall(c, <<"q">>, Ms(10))
    \/ \E c \in Threads : ReqStore(c)
    \/ \E c \in Threads : ReqSub(c)
    \/ \E c \in Threads : ReqUnsub(c)
    \/ \E c \in Threads : ReqPub(c)
    \/ \E c \in Threads : ReqTimeout(c)

SpecCallers == InitCallers /\ [][NextCallers]_vars

\* a bare Messages fed a byte stream in chunks:
\* `for message in messages(chunk)` run to its end
SplitterFeed(n) ==
    /\ n \in 0..Len(wire)
    /\ LET chunk == SubSeq(wire, 1, n)
           it == MessagesIter(MessagesCall(buffer, chunk))
       IN /\ received' = PyBytes(chunk)
          /\ wire' = SubSeq(wire, n + 1, Len(wire))
          /\ fed' = fed \o chunk
          /\ buffer' = it.buffer
          /\ emitted' = emitted \o it.frames
    /\ UNCHANGED <<run, lpc, frames, subject, inbox, information, messagesQ, responseQ,
                   sid, sent, peerWrites, peerLog, uuids, callers, putLog, got, sock, peer, raised>>

InitSplit == \E stream \in BoundedSeqs(SplitAlphabet, MaxStream) : InitWith({}, stream)

NextSplit == \E n \in 0..Len(wire) : SplitterFeed(n)

SpecSplit == InitSplit /\ [][NextSplit]_vars

\* one connection to a peer that sends keepalives, acknowledgements and
\* deliveries; no caller
InitKeepalive == InitWith({}, <<>>)

NextKeepalive ==
    \/ Enter
    \/ PeerInfo
    \/ PeerPing
    \/ PeerQuiet
    \/ \E r \in Replies, p \in Payloads : PeerMsg(<<"a">>, IntToBytes(1), r, p)
    \/ \E r \in Replies, p \in Payloads : PeerPingMsg(<<"a">>, IntToBytes(1), r, p)
    \/ LoopTest
    \/ \E n \in 1..Len(wire) : LoopRecv(n)
    \/ LoopFrame

SpecKeepalive == InitKeepalive /\ [][NextKeepalive]_vars

\* one connection, one caller thread that requests with a timeout and then
\* leaves the `with` block; the peer pings and replies
NextStop ==
    \/ Enter
    \/ PeerReplies
    \/ PeerPing
    \/ LoopTest
    \/ \E n \in 1..Len(wire) : LoopRecv(n)
    \/ LoopRecvEnd
    \/ \E kind \in RecvErrors : LoopRecvFails(kind)
    \/ LoopFrame
    \/ \E c \in Threads : ReqCall(c, <<"q">>, Ms(10))
    \/ \E c \in Threads : ReqStore(c)
    \/ \E c \in Threads : ReqSub(c)
    \/ \E c \in Threads : ReqUnsub(c)
    \/ \E c \in Threads : ReqPub(c)
    \/ \E c \in Threads : ReqResponse(c)
    \/ \E c \in Threads : ReqTimeout(c)
    \/ \E c \in Threads : ExitCall(c)
    \/ \E c \in Threads : ExitShutdown(c)
    \/ \E c \in Threads : ExitClose(c)

SpecStop == Init /\ [][NextStop]_vars

\* one connection that the peer closes, resets or leaves, and one caller thread
\* that gets
NextPeer ==
    \/ Enter
    \/ \E r \in Replies, p \in Payloads : PeerMsg(<<"a">>, IntToBytes(1), r, p)
    \/ \E how \in {"closed", "reset", "lost"} : PeerFails(how)
    \/ LoopTest
    \/ \E n \in 1..Len(wire) : LoopRecv(n)
    \/ LoopRecvEnd
    \/ \E kind \in RecvErrors : LoopRecvFails(kind)
    \/ LoopFrame
    \/ \E c \in Threads, w \in {None, Ms(10)} : GetCall(c, w)
    \/ \E c \in Threads : GetNowait(c)
    \/ \E c \in Threads : GetWait(c)

SpecPeer == Init /\ [][NextPeer]_vars

\* one connection to a peer that delivers payloads of any content and writes
\* frames the client does not know; no caller
NextFrames ==
    \/ Enter
    \/ \E r \in Replies, p \in AnyPayloads : PeerMsg(<<"a">>, IntToBytes(1), r, p)
    \/ PeerOther
    \/ LoopTest
    \/ \E n \in 1..Len(wire) : LoopRecv(n)
    \/ LoopFrame

SpecFrames == InitKeepalive /\ [][NextFrames]_vars

\* a step of the thread started by __enter__
LoopStep ==
    \/ LoopTest
    \/ \E n \in 1..Len(wire) : LoopRecv(n)
    \/ LoopRecvEnd
    \/ \E kind \in RecvErrors : LoopRecvFails(kind)
    \/ LoopFrame

\* a step of __exit__ past its first statement
ExitStep == \E c \in {"app"} : ExitShutdown(c) \/ ExitClose(c)

\* the put of the payload frame at the head would wait: it goes to _response
\* and the slot is taken
PutWaits ==
    /\ frames # <<>>
    /\ LET message == Head(frames)
       IN /\ message \notin {PING, PONG, OK}
          /\ ~StartsWith(message, ERR) /\ ~StartsWith(message, INFO)
          /\ ~StartsWith(message, MSG)
          /\ inbox # Unbound
          /\ Route(subject, inbox, message).sink = "response"
          /\ Len(responseQ) >= 1

\* the loop thread has a step to take: it is not waiting in recv for bytes, not
\* waiting in put for the slot, and has not ended
LoopCanStep ==
    \/ lpc = "while"
    \/ /\ lpc = "recv"
       /\ \/ sock # "closed" /\ peer \in {"up", "closed"} /\ wire # <<>>
          \/ sock = "shutdown"
          \/ sock = "open" /\ peer = "closed" /\ wire = <<>>
          \/ RecvErrors # {}
    \/ lpc = "for" /\ frames # <<>> /\ ~PutWaits

\* the threads run: the loop thread takes a step whenever it has one (weak
\* fairness of LoopStep), and so does a caller inside __exit__
SpecStopFair ==
    /\ SpecStop
    /\ ([]<>(~LoopCanStep) \/ []<><<LoopStep>>_vars)
    /\ WF_vars(ExitStep)

------------------------------------------------------------------------------
(* The frame splitter *)

\* the frames a fresh Messages yields when it is given all of `stream` as one chunk
Whole(stream) == MessagesIter(MessagesCall(<<>>, stream)).frames

\* C4: however the stream is cut into chunks, the frames yielded so far are those
\* yielded when the bytes fed so far are delivered as one chunk
C4_ChunkingInsensitive == emitted = Whole(fed)

\* a separator was cut between its two bytes and the frame before it came out
C4_Witness ==
    /\ received = PyBytes(<<"\n">>)
    /\ Len(fed) >= 3
    /\ SubSeq(fed, Len(fed) - 2, Len(fed)) = <<"a", "\r", "\n">>
    /\ Len(emitted) >= 1
    /\ emitted[Len(emitted)] = <<"a">>

\* C5: the frames yielded so far, each followed by the separator, and then the
\* carry buffer, are the bytes fed so far; the carry buffer holds no separator
C5_RoundTrip ==
    /\ Join([k \in 1..Len(emitted) |-> emitted[k] \o CRLF]) \o buffer = fed
    /\ Find(buffer, CRLF) = 0

\* two frames came out and a fragment is held back
C5_Witness ==
    /\ Len(emitted) = 2
    /\ buffer = <<"a">>
    /\ wire = <<>>

------------------------------------------------------------------------------
(* Routing and ordering of deliveries *)

\* the frames of the peer that the loop has taken from the splitter
Handled == 1..Len(emitted)

\* the puts made for the frame with ordinal i of the stream
PutsAt(i) == {k \in 1..Len(putLog) : putLog[k].at = i}

\* what the caller threads hold of _messages in a get that is under way
Held == LET c == CHOOSE d \in DOMAIN callers : TRUE IN callers[c].acc

\* C1: the deliveries are put into _messages in the order of their payload frames
\* in the byte stream, one put per payload frame handled, whatever the chunks;
\* and what get returned, then what a get under way holds, then what is queued,
\* is the sequence of those puts
C1_OrderPreserved ==
    /\ \A k \in 1..Len(putLog) :
          /\ putLog[k].at \in Handled
          /\ peerLog[putLog[k].at].kind = "PAYLOAD"
          /\ putLog[k].item.payload = peerLog[putLog[k].at].frame
          /\ \A j \in 1..(k - 1) : putLog[j].at < putLog[k].at
    /\ \A i \in Handled : peerLog[i].kind = "PAYLOAD" => Cardinality(PutsAt(i)) = 1
    /\ got \o Held \o messagesQ = MsgPuts

\* one chunk held two announcement and payload pairs, and one get returned both
\* deliveries
C1_Witness ==
    /\ received.kind = "bytes"
    /\ Len(Split(received.val, CRLF)) = 5
    /\ Len(got) = 2
    /\ got[1] # got[2]
    /\ \E c \in DOMAIN callers : callers[c].pc = "idle" /\ callers[c].result.val = got

\* C2: the payload frame after an announcement with a reply subject is put into
\* _messages as Request(subject, reply subject, payload), and nothing is put into
\* _response for it, also when the subject starts with INBOX.
C2_ReplySubjectWins ==
    \A i \in Handled :
        (peerLog[i].kind = "PAYLOAD" /\ peerLog[i].reply.given) =>
            /\ Cardinality(PutsAt(i)) = 1
            /\ \A k \in PutsAt(i) :
                  /\ putLog[k].sink = "messages"
                  /\ putLog[k].item = Request(peerLog[i].subject, peerLog[i].reply.val,
                                              peerLog[i].frame)

\* a Request whose subject starts with INBOX. is queued in _messages
C2_Witness ==
    \E k \in 1..Len(messagesQ) :
        /\ messagesQ[k].type = "Request"
        /\ StartsWith(messagesQ[k].subject, INBOXPREFIX)
        /\ messagesQ[k].inbox = <<"r">>

\* C3: the payload frame after an announcement without a reply subject is put as
\* a Response into _response when the subject starts with INBOX., and as a Message
\* into _messages otherwise; never into the other sink, never as a Request
C3_RoutedBySubject ==
    \A i \in Handled :
        (peerLog[i].kind = "PAYLOAD" /\ ~peerLog[i].reply.given) =>
            /\ Cardinality(PutsAt(i)) = 1
            /\ \A k \in PutsAt(i) :
                  IF StartsWith(peerLog[i].subject, INBOXPREFIX)
                  THEN /\ putLog[k].sink = "response"
                       /\ putLog[k].item = Response(peerLog[i].frame)
                  ELSE /\ putLog[k].sink = "messages"
                       /\ putLog[k].item = Message(peerLog[i].subject, peerLog[i].frame)

\* a Response is in _response and a Message in _messages
C3_Witness ==
    /\ Len(responseQ) = 1
    /\ responseQ[1].item.type = "Response"
    /\ \E k \in 1..Len(messagesQ) : messagesQ[k].type = "Message"

------------------------------------------------------------------------------
(* get *)

GetIsOver(c) == callers[c].op = "get" /\ callers[c].pc = "idle"

\* the puts into _messages made after the last qsize() of caller c
PutSince(c) == SubSeq(MsgPuts, callers[c].snapPuts + 1, Len(MsgPuts))

\* C6: every delivery put into _messages is returned by one get, or held by the
\* get under way, or still queued, in the order of the puts; a get that returned
\* gave exactly what was queued when it read qsize() and left queued only what
\* was put since; a get raises only on an empty queue; and no step of a get waits
\* for anything
C6_GetDrains ==
    /\ got \o Held \o messagesQ = MsgPuts
    /\ \A c \in DOMAIN callers :
          /\ (GetIsOver(c) /\ callers[c].result.kind = "return") =>
                /\ callers[c].result.val = callers[c].snap
                /\ messagesQ = PutSince(c)
          /\ (GetIsOver(c) /\ callers[c].result.kind # "return") =>
                /\ callers[c].result.kind = "ValueError"
                /\ callers[c].snap = <<>>
                /\ messagesQ = PutSince(c)
          /\ callers[c].pc = "get_nowait" => ENABLED GetNowait(c)
          /\ callers[c].pc = "get_wait" => ENABLED GetWait(c)
          /\ (callers[c].pc = "get_wait" /\ messagesQ = <<>>) =>
                ENABLED (GetWait(c) /\ callers'[c].pc = "idle"
                            /\ callers'[c].result = Returns(<<>>, <<>>))

\* a get without wait has returned the one delivery queued, and then a get with
\* wait 0 on the empty sink has returned an empty list
C6_Witness ==
    \E c \in DOMAIN callers :
        /\ GetIsOver(c)
        /\ callers[c].calls = 2
        /\ callers[c].wait = Ms(0)
        /\ callers[c].result = Returns(<<>>, <<>>)
        /\ Len(got) = 1
        /\ messagesQ = <<>>

\* C7: a get with a negative wait raises ValueError at once and takes nothing
\* from _messages, whatever is queued: what was queued at the call stays queued
C7_NegativeWaitRejected ==
    \A c \in DOMAIN callers :
        (callers[c].op = "get" /\ callers[c].wait.given /\ callers[c].wait.ms < 0) =>
            /\ callers[c].pc = "idle"
            /\ callers[c].result.kind = "ValueError"
            /\ messagesQ = callers[c].snap \o PutSince(c)

------------------------------------------------------------------------------
(* request *)

RequestIsOver(c) == callers[c].op = "request" /\ callers[c].pc = "idle"

\* C8: a request given a wait of 0 or more that finds _response empty can end with
\* TimeoutError; one that finds a Response returns its payload as the peer sent it
C8_RequestTimeoutTerminates ==
    \A c \in DOMAIN callers :
        /\ (callers[c].pc = "req_wait" /\ callers[c].wait.given /\ callers[c].wait.ms >= 0
              /\ responseQ = <<>>) => ENABLED ReqTimeout(c)
        /\ (RequestIsOver(c) /\ callers[c].result.kind = "return") =>
              \E i \in Handled :
                  /\ peerLog[i].kind = "PAYLOAD"
                  /\ callers[c].result.val = <<Response(peerLog[i].frame)>>

\* C9: a request made after one that timed out returns the Response that was
\* delivered to its own inbox subject
C9_ResponseMatchesInbox ==
    \A c \in DOMAIN callers :
        (RequestIsOver(c) /\ callers[c].timedOut /\ callers[c].result.kind = "return") =>
            callers[c].result.to = callers[c].inbox

------------------------------------------------------------------------------
(* Subscription identifiers *)

DigitValue(ch) == CASE ch = "0" -> 0 [] ch = "1" -> 1 [] ch = "2" -> 2 [] ch = "3" -> 3
                    [] ch = "4" -> 4 [] ch = "5" -> 5 [] ch = "6" -> 6 [] ch = "7" -> 7
                    [] ch = "8" -> 8 [] ch = "9" -> 9

\* the number a decimal byte string denotes
RECURSIVE BytesToInt(_)
BytesToInt(b) ==
    IF b = <<>> THEN 0
    ELSE 10 * BytesToInt(SubSeq(b, 1, Len(b) - 1)) + DigitValue(b[Len(b)])

\* C10: no two SUB frames written carry the same sid, and the sids increase in
\* the order the frames were written
C10_SidsUnique ==
    \A i, j \in SubFrames : i < j => BytesToInt(SubSid(i)) < BytesToInt(SubSid(j))

------------------------------------------------------------------------------
(* Keepalive *)

\* the number of entries of seq that are x
Count(seq, x) == Cardinality({k \in 1..Len(seq) : seq[k] = x})

\* the loop handles the frame at the head of the splitter's output
Handles(f) == lpc = "for" /\ frames # <<>> /\ Head(frames) = f /\ emitted' # emitted

\* a step that handles PING writes one PONG frame and nothing else; one that
\* handles PONG or +OK writes nothing; neither puts anything nor touches the
\* recorded subject and reply subject
KeepaliveStep ==
    /\ Handles(PING) =>
          /\ sent' = Append(sent, PONG \o CRLF)
          /\ UNCHANGED <<messagesQ, responseQ, putLog, subject, inbox>>
    /\ (Handles(PONG) \/ Handles(OK)) =>
          UNCHANGED <<sent, messagesQ, responseQ, putLog, subject, inbox>>

\* every put is made for a payload frame and is the delivery its own
\* announcement describes
RoutedByOwnAnnouncement ==
    \A k \in 1..Len(putLog) :
        LET e == peerLog[putLog[k].at]
        IN /\ e.kind = "PAYLOAD"
           /\ putLog[k].item = Route(PyBytes(e.subject),
                                     IF e.reply.given THEN PyBytes(e.reply.val) ELSE PyFalse,
                                     e.frame).item

\* C11: handling a PING writes one PONG frame and nothing else: no put into either
\* sink, the recorded subject and reply subject stay; handling PONG or +OK writes
\* nothing and puts nothing; so the PONG frames written are as many as the PING
\* frames handled, and a delivery after a PING is routed by its own announcement
C11_PingPong ==
    /\ [][KeepaliveStep]_vars
    /\ [](Count(sent, PONG \o CRLF) = Count(emitted, PING))
    /\ []RoutedByOwnAnnouncement

\* a PING came between two deliveries: one PONG was written and both deliveries
\* were put
C11_Witness ==
    /\ Len(emitted) = 5
    /\ emitted[3] = PING
    /\ sent = <<PONG \o CRLF>>
    /\ Len(putLog) = 2
    /\ putLog[1].item.type # putLog[2].item.type

------------------------------------------------------------------------------
(* Disconnect *)

\* C12: once _run is false, a failure of recv or of a send ends in no exception:
\* none leaves the loop thread
C12_PostStopSuppressed == ~raised.stopped

\* all the bytes the peer wrote, in order
PeerBytes == Join([k \in 1..Len(peerLog) |-> peerLog[k].frame \o CRLF])

\* C20: what was fed to the splitter and what is still to be read are the bytes
\* the peer wrote, each once; the frames handled are the frames the peer wrote,
\* each once and in order; no frame has two puts
C20_FedOnce ==
    /\ fed \o wire = PeerBytes
    /\ Len(emitted) <= Len(peerLog)
    /\ \A i \in 1..Len(emitted) : emitted[i] = peerLog[i].frame
    /\ \A j, k \in 1..Len(putLog) : j < k => putLog[j].at < putLog[k].at

\* the loop thread runs: it takes a step whenever it has one, the test of
\* `while self._run` and the return of recv at end of stream among them
SpecPeerFair ==
    /\ SpecPeer
    /\ ([]<>(~LoopCanStep) \/ []<><<LoopStep>>_vars)
    /\ WF_vars(LoopTest)
    /\ WF_vars(LoopRecvEnd)

Exited == \E c \in DOMAIN callers : callers[c].pc = "exited"

LoopStopped == lpc \in {"done", "dead"}

\* a step of the loop thread is enabled only where LoopCanStep holds
LoopStepsWhereItCan == [][LoopStep => LoopCanStep]_vars

\* C14: once __exit__ has returned, the loop thread ends
C14_LoopStops == Exited ~> LoopStopped

------------------------------------------------------------------------------
(* The peer ends the connection *)

\* C13: a get called after a recv or send error ended the loop thread does not
\* return as from a healthy connection: it raises
C13_ReportsEndedLoop ==
    \A c \in DOMAIN callers :
        (GetIsOver(c) /\ callers[c].loopEnded) => callers[c].result.kind # "return"

\* C15: when recv returns b"" because the peer closed the stream, the loop
\* thread ends
C15_LoopLeavesActive ==
    (run /\ lpc = "while" /\ received = PyBytes(<<>>) /\ peer = "closed") ~> LoopStopped

------------------------------------------------------------------------------
(* The response slot *)

\* C16: the loop never waits to hand a delivery over: whenever it has a frame
\* to handle, the step that handles it can be taken
C16_PutNeverWaits == lpc = "for" => ~PutWaits

------------------------------------------------------------------------------
(* Payload frames *)

\* C17: the frame after an announcement is put as the delivery that announcement
\* describes, with the bytes of the frame as payload, whatever they are; and no
\* PONG is written for it: the PONG frames written are as many as the PING
\* frames the peer sent as such
C17_PayloadWhateverItsContent ==
    /\ \A i \in Handled :
          peerLog[i].kind = "PAYLOAD" =>
              /\ Cardinality(PutsAt(i)) = 1
              /\ \A k \in PutsAt(i) :
                    putLog[k].item = Route(PyBytes(peerLog[i].subject),
                                           IF peerLog[i].reply.given
                                           THEN PyBytes(peerLog[i].reply.val) ELSE PyFalse,
                                           peerLog[i].frame).item
    /\ Count(sent, PONG \o CRLF) = Cardinality({i \in Handled : peerLog[i].kind = "PING"})

\* the announcements among the frames handled
Announcements == {i \in 1..Len(emitted) : StartsWith(emitted[i], MSG)}

\* C18: a put is made only for the frame right after an announcement, so the
\* puts are no more than the announcements; and a frame the client does not
\* know does not end the loop
C18_OneAnnouncementOneDelivery ==
    /\ \A k \in 1..Len(putLog) : (putLog[k].at - 1) \in Announcements
    /\ Len(putLog) <= Cardinality(Announcements)
    /\ raised.kind # "UnboundLocalError"

------------------------------------------------------------------------------
(* The one-shot subscription of request *)

\* the sid in the SUB frame written for this inbox subject
SidOfInbox(inb) == SubSid(CHOOSE i \in SubFrames : SubSubject(i) = inb)

\* caller c writes the UNSUB frame of its request
WritesUnsub(c) == callers[c].pc = "req_unsub" /\ callers'[c].pc = "req_pub"

\* C19: the UNSUB frame a request writes carries the sid of the SUB frame the
\* same request wrote for its inbox subject
C19_UnsubMatchesSub ==
    [][\A c \in DOMAIN callers :
          WritesUnsub(c) =>
              sent'[Len(sent')] = Join(<<UNSUB, SPACE, SidOfInbox(callers[c].inbox), SPACE,
                                         <<"1">>, CRLF>>)]_vars

====
